---- MODULE Spec2Model ----
(***************************************************************************)
(* Model of compute_OO_distances (MDTraj/geometry/water.py): the O-O       *)
(* distances of the water molecules of a trajectory, and their first and   *)
(* second solvation shells.                                                *)
(*                                                                         *)
(* numpy arrays are functions over 0..n-1 (the source's indices are kept); *)
(* Python strings are sequences of one-character strings.                  *)
(***************************************************************************)
EXTENDS Integers, Sequences, FiniteSets, TLC

VARIABLES
    traj,              \* the trajectory argument: [top, xyz]
    whichArg,          \* the `which` argument as the caller passed it
    tiebreak,          \* how this build's unstable argsort orders equal keys
    pc,                \* position in the call
    which,             \* local `which` (after which.lower())
    shells,            \* local `shells`
    oxygens,           \* local `oxygens`
    n_waters,          \* local `n_waters`
    distances,         \* the dense array object squareform returned (l.47)
    first_shell_inds,  \* local `first_shell_inds`
    inds,              \* local `inds`
    result,            \* the returned array (l.80)
    error,             \* the exception raised, "" when none
    again,             \* TRUE in the second call on the same arguments
    prev               \* what the first call returned

vars == <<traj, whichArg, tiebreak, pc, which, shells, oxygens, n_waters,
          distances, first_shell_inds, inds, result, error, again, prev>>

-----------------------------------------------------------------------------
(* Bounds of the model *)

MaxW == 6
MaxF == 2
Shift == 2

-----------------------------------------------------------------------------
(* numpy-style arrays over 0..n-1 *)

Size(a) == Cardinality(DOMAIN a)

Min2(a, b) == IF a <= b THEN a ELSE b

Max2(a, b) == IF a >= b THEN a ELSE b

Abs(x) == IF x < 0 THEN -x ELSE x

\* a[lo:hi] for 0 <= lo, hi : the bounds are clipped to the length
Slice(a, lo, hi) ==
    LET n == Size(a)
        l == Min2(lo, n)
        h == Min2(hi, n)
    IN  [k \in 0..(Max2(h - l, 0) - 1) |-> a[l + k]]

\* np.concatenate([a, b]) of two 1-d arrays
Concatenate(a, b) ==
    LET na == Size(a)
        nb == Size(b)
    IN  [k \in 0..(na + nb - 1) |-> IF k < na THEN a[k] ELSE b[k - na]]

\* a Python list (1-based sequence) as an array over 0..n-1
ZeroBased(s) == [k \in 0..(Len(s) - 1) |-> s[k + 1]]

None == <<>>

-----------------------------------------------------------------------------
(* Strings *)

UpperChars == <<"A","B","C","D","E","F","G","H","I","J","K","L","M",
                "N","O","P","Q","R","S","T","U","V","W","X","Y","Z">>

LowerChars == <<"a","b","c","d","e","f","g","h","i","j","k","l","m",
                "n","o","p","q","r","s","t","u","v","w","x","y","z">>

LowerChar(c) ==
    IF \E i \in 1..Len(UpperChars) : UpperChars[i] = c
    THEN LowerChars[CHOOSE i \in 1..Len(UpperChars) : UpperChars[i] = c]
    ELSE c

\* str.lower() without any case conversion: what a forgotten .lower() gives
lower_identity(s) == s

\* str.lower()
lower(s) == [i \in 1..Len(s) |-> LowerChar(s[i])]

\* sub in s
Contains(s, sub) ==
    \E i \in 1..(Len(s) - Len(sub) + 1) : SubSeq(s, i, i + Len(sub) - 1) = sub

str_all == <<"a","l","l">>

str_firstshell == <<"f","i","r","s","t","s","h","e","l","l">>

str_secondshell == <<"s","e","c","o","n","d","s","h","e","l","l">>

str_bothshells == <<"b","o","t","h","s","h","e","l","l","s">>

str_shell == <<"s","h","e","l","l">>

possible_which == {str_all, str_firstshell, str_secondshell, str_bothshells}

\* The `which` arguments tried: the four modes, two of them also in mixed
\* case, and two strings that are no mode (one of them contains 'shell').
WhichInputs ==
    possible_which \cup
    { <<"A","l","L">>,
      <<"B","o","t","h","S","h","e","l","l","s">>,
      <<"b","a","n","a","n","a">>,
      str_shell }

-----------------------------------------------------------------------------
(* The trajectories tried *)

Atom(name, resname) == [name |-> name, resname |-> resname]

\* The topology of W waters (W may be 0): a solute oxygen (atom 0), the
\* water oxygens (atoms 1..W, residues named HOH and SOL in turn) and a
\* water hydrogen.
Top(W) ==
    [a \in 0..(W + 1) |->
        IF a = 0 THEN Atom("O", "ALA")
        ELSE IF a = W + 1 THEN Atom("H", "HOH")
        ELSE Atom("O", IF a % 2 = 1 THEN "HOH" ELSE "SOL")]

\* Coordinates on a line: water a belongs to lattice site a-1 and, when it
\* is displaced, sits Shift sites further; the displaced set D moves on by
\* one water every frame.  Waters coincide, exchange their order and sit at
\* equal distances from a third one.
Xyz(W, F, D) ==
    [f \in 0..(F - 1) |->
        [a \in 0..(W + 1) |->
            IF a \in 1..W
            THEN (a - 1) + (IF (((a - 1 + f) % W) + 1) \in D THEN Shift ELSE 0)
            ELSE 0]]

Trajectories ==
    UNION { { [top |-> Top(WF[1]), xyz |-> Xyz(WF[1], WF[2], D)] :
                D \in SUBSET (1..WF[1]) } :
            WF \in (0..MaxW) \X (1..MaxF) }

\* np.argsort's default kind is quicksort, which is not stable: the order
\* it gives equal keys is a property of the build (numpy version, sort
\* implementation, row length), the same in every call of one build.  Two
\* such orders are tried: equal keys by ascending and by descending index.
TieBreaks == {"ascending", "descending"}

-----------------------------------------------------------------------------
(* l.40-47: water selection and the dense distance tensor *)

IsWaterOxygen(a) == a.name = "O" /\ a.resname \in {"HOH", "SOL"}

\* l.40 with the residue test left out
oxygens_any_residue(t) ==
    ZeroBased(SelectSeq([k \in 1..Size(t.top) |-> k - 1],
                        LAMBDA a : t.top[a].name = "O"))

\* l.40: the indices of the water oxygens, in topology order
oxygens_of(t) ==
    ZeroBased(SelectSeq([k \in 1..Size(t.top) |-> k - 1],
                        LAMBDA a : IsWaterOxygen(t.top[a])))

RECURSIVE PairsFrom(_, _, _)
\* [(i, j) for j in xrange(j0, n)] followed by the pairs of the later i
PairsFrom(i, j, n) ==
    IF i >= n THEN <<>>
    ELSE IF j >= n THEN PairsFrom(i + 1, i + 2, n)
    ELSE <<(<<i, j>>)>> \o PairsFrom(i, j + 1, n)

\* l.43
water_inds_of(n) == ZeroBased(PairsFrom(0, 1, n))

\* l.44: oxygens[water_inds]
atom_pairs_of(oxy, wi) ==
    [k \in DOMAIN wi |-> <<oxy[wi[k][1]], oxy[wi[k][2]]>>]

\* md.compute_distances rejects a pair list without pairs
compute_distances_fails(pairs) == Size(pairs) = 0

\* md.compute_distances: the distance of every atom pair in every frame
compute_distances(t, pairs) ==
    [f \in DOMAIN t.xyz |->
        [k \in DOMAIN pairs |->
            Abs(t.xyz[f][pairs[k][1]] - t.xyz[f][pairs[k][2]])]]

\* md.geometry.contact.squareform: the dense symmetric tensor, 0 on the
\* diagonal
squareform(flat, wi) ==
    LET n == 1 + CHOOSE m \in 0..Size(wi) :
                    /\ \A k \in DOMAIN wi : wi[k][1] <= m /\ wi[k][2] <= m
                    /\ \E k \in DOMAIN wi : wi[k][2] = m
    IN  [f \in DOMAIN flat |->
            [i \in 0..(n - 1) |->
                [j \in 0..(n - 1) |->
                    IF i = j THEN 0
                    ELSE flat[f][CHOOSE k \in DOMAIN wi :
                                    wi[k] = <<Min2(i, j), Max2(i, j)>>]]]]

-----------------------------------------------------------------------------
(* l.51-76: sorting, the shells and the final gather *)

\* the slice 1: of l.53 and 1:5 of l.56
SelfRank == 1

ShellStop == 5

\* j comes before i among equal keys
Before(j, i, tb) == IF tb = "ascending" THEN j < i ELSE j > i

Rank(row, i, tb) ==
    Cardinality({j \in DOMAIN row :
                    row[j] < row[i] \/ (row[j] = row[i] /\ Before(j, i, tb))})

\* an argsort that ranks the largest key first
argsort_largest_first(row, tb) ==
    [k \in DOMAIN row |->
        CHOOSE i \in DOMAIN row : Rank(row, i, tb) = Size(row) - 1 - k]

\* np.argsort of one row: the indices that sort it in ascending order, equal
\* keys in the build's order
argsort(row, tb) ==
    [k \in DOMAIN row |-> CHOOSE i \in DOMAIN row : Rank(row, i, tb) = k]

\* a sort that puts the largest first
sort_row_descending(row) ==
    [k \in DOMAIN row |-> row[argsort(row, "ascending")[Size(row) - 1 - k]]]

\* ndarray.sort() of one row: its values in ascending order
sort_row(row) == [k \in DOMAIN row |-> row[argsort(row, "ascending")[k]]]

\* l.52: distances.sort(), the last axis sorted in place
sort_last_axis(d) ==
    [f \in DOMAIN d |-> [w \in DOMAIN d[f] |-> sort_row(d[f][w])]]

\* l.53 dropping the last entry of every row instead of the first
drop_last(d) ==
    [f \in DOMAIN d |->
        [w \in DOMAIN d[f] |-> Slice(d[f][w], 0, Size(d[f][w]) - 1)]]

\* l.53: distances[:, :, 1:]
drop_self(d) ==
    [f \in DOMAIN d |->
        [w \in DOMAIN d[f] |-> Slice(d[f][w], SelfRank, Size(d[f][w]))]]

\* l.56 slicing 0:4, which keeps rank 0
first_shell_from_rank0(d, tb) ==
    [f \in DOMAIN d |->
        [w \in DOMAIN d[f] |->
            Slice(argsort(d[f][w], tb), 0, ShellStop - 1)]]

\* l.56 slicing 1:4, one neighbour short
first_shell_three(d, tb) ==
    [f \in DOMAIN d |->
        [w \in DOMAIN d[f] |->
            Slice(argsort(d[f][w], tb), SelfRank, ShellStop - 1)]]

\* l.56: np.argsort(distances, axis=2)[:, :, 1:5]
first_shell_inds_of(d, tb) ==
    [f \in DOMAIN d |->
        [w \in DOMAIN d[f] |->
            Slice(argsort(d[f][w], tb), SelfRank, ShellStop)]]

\* l.62 and l.74: np.ones((n_frames, n_waters, 1)) * np.arange(n_frames)
i0_of(n_frames, nw) ==
    [f \in 0..(n_frames - 1) |-> [w \in 0..(nw - 1) |-> [z \in {0} |-> f]]]

\* l.75: np.ones((n_frames, n_waters, 1)) * np.arange(n_waters)
i1_of(n_frames, nw) ==
    [f \in 0..(n_frames - 1) |-> [w \in 0..(nw - 1) |-> [z \in {0} |-> w]]]

\* reshape((n_frames, n_waters, -1)) of an (F, W, K, K') array, row-major
reshape_last2(a4) ==
    [f \in DOMAIN a4 |->
        [w \in DOMAIN a4[f] |->
            LET K  == Size(a4[f][w])
                K2 == IF K = 0 THEN 0 ELSE Size(a4[f][w][0])
            IN  [q \in 0..(K * K2 - 1) |-> a4[f][w][q \div K2][q % K2]]]]

\* l.63 with the two shell axes exchanged before the reshape
second_shell_transposed(fsi, n_frames, nw) ==
    LET i0 == i0_of(n_frames, nw)
    IN  reshape_last2(
            [f \in DOMAIN fsi |->
                [w \in DOMAIN fsi[f] |->
                    [k \in DOMAIN fsi[f][w] |->
                        [m \in DOMAIN fsi[f][w] |->
                            fsi[i0[f][w][0]][fsi[f][w][m]][k]]]]])

\* l.62-63: first_shell_inds[i0, first_shell_inds].reshape(...)
second_shell_inds_of(fsi, n_frames, nw) ==
    LET i0 == i0_of(n_frames, nw)
    IN  reshape_last2(
            [f \in DOMAIN fsi |->
                [w \in DOMAIN fsi[f] |->
                    [k \in DOMAIN fsi[f][w] |->
                        fsi[i0[f][w][0]][fsi[f][w][k]]]]])

\* l.71 with the two index arrays in the other order
concat_second_first(a, b) ==
    [f \in DOMAIN a |-> [w \in DOMAIN a[f] |-> Concatenate(b[f][w], a[f][w])]]

\* l.71: np.concatenate([a, b], axis=2)
concatenate_axis2(a, b) ==
    [f \in DOMAIN a |-> [w \in DOMAIN a[f] |-> Concatenate(a[f][w], b[f][w])]]

\* l.59-71 with the concatenation of l.71 lost: 'bothshells' gets the
\* second shell alone
inds_without_first(wh, fsi, n_frames, nw) ==
    IF wh = str_firstshell THEN fsi
    ELSE second_shell_inds_of(fsi, n_frames, nw)

\* l.59-71: the index array of shell mode wh
inds_of(wh, fsi, n_frames, nw) ==
    IF wh = str_firstshell THEN fsi
    ELSE IF wh = str_secondshell THEN second_shell_inds_of(fsi, n_frames, nw)
    ELSE concatenate_axis2(fsi, second_shell_inds_of(fsi, n_frames, nw))

\* l.74-76: distances[i0, i1, inds]
gather(d, n_frames, nw, ix) ==
    LET i0 == i0_of(n_frames, nw)
        i1 == i1_of(n_frames, nw)
    IN  [f \in DOMAIN ix |->
            [w \in DOMAIN ix[f] |->
                [q \in DOMAIN ix[f][w] |->
                    d[i0[f][w][0]][i1[f][w][0]][ix[f][w][q]]]]]

-----------------------------------------------------------------------------
(* The call, step by step *)

Init ==
    /\ traj \in Trajectories
    /\ whichArg \in WhichInputs
    /\ tiebreak \in TieBreaks
    /\ pc = "start"
    /\ which = whichArg
    /\ shells = FALSE
    /\ oxygens = None
    /\ n_waters = 0
    /\ distances = None
    /\ first_shell_inds = None
    /\ inds = None
    /\ result = None
    /\ error = ""
    /\ again = FALSE
    /\ prev = None

\* l.30-38: the mode is lower-cased and validated
Validate ==
    /\ pc = "start"
    /\ LET lowered == lower(which)
       IN  /\ which' = lowered
           /\ IF lowered \notin possible_which
              THEN /\ pc' = "failed"
                   /\ error' = "InvalidMode"
                   /\ UNCHANGED shells
              ELSE /\ pc' = "validated"
                   /\ shells' = Contains(lowered, str_shell)
                   /\ UNCHANGED error
    /\ UNCHANGED <<traj, whichArg, tiebreak, oxygens, n_waters, distances,
                   first_shell_inds, inds, result, again, prev>>

\* l.40-49: the water oxygens, their pairs and the dense distance tensor
ComputeDistances ==
    /\ pc = "validated"
    /\ LET oxy        == oxygens_of(traj)
           water_inds == water_inds_of(Size(oxy))
           atom_pairs == atom_pairs_of(oxy, water_inds)
           dense      == squareform(compute_distances(traj, atom_pairs),
                                    water_inds)
       IN  /\ oxygens' = oxy
           /\ IF compute_distances_fails(atom_pairs)
              THEN /\ pc' = "failed"
                   /\ error' = "InsufficientData"
                   /\ n_waters' = Size(oxy)
                   /\ UNCHANGED distances
              ELSE /\ pc' = "computed"
                   /\ distances' = dense
                   /\ n_waters' = Size(dense[0])
                   /\ UNCHANGED error
    /\ UNCHANGED <<traj, whichArg, tiebreak, which, shells,
                   first_shell_inds, inds, result, again, prev>>

\* l.51-80: the sorted distances, or the distances to the shells
Extract ==
    /\ pc = "computed"
    /\ pc' = "done"
    /\ IF ~shells
       THEN LET sorted == sort_last_axis(distances)
            IN  /\ distances' = sorted
                /\ result' = drop_self(sorted)
                /\ UNCHANGED <<first_shell_inds, inds>>
       ELSE LET fsi == first_shell_inds_of(distances, tiebreak)
                ix  == inds_of(which, fsi, Size(distances), n_waters)
            IN  /\ first_shell_inds' = fsi
                /\ inds' = ix
                /\ result' = gather(distances, Size(distances), n_waters, ix)
                /\ UNCHANGED distances
    /\ UNCHANGED <<traj, whichArg, tiebreak, which, shells, oxygens,
                   n_waters, error, again, prev>>

\* The caller keeps what the call returned and calls once more with the
\* same arguments; the locals of the first call are gone.
CallAgain ==
    /\ pc = "done"
    /\ ~again
    /\ again' = TRUE
    /\ prev' = result
    /\ pc' = "start"
    /\ which' = whichArg
    /\ shells' = FALSE
    /\ oxygens' = None
    /\ n_waters' = 0
    /\ distances' = None
    /\ first_shell_inds' = None
    /\ inds' = None
    /\ result' = None
    /\ UNCHANGED <<traj, whichArg, tiebreak, error>>

Next == Validate \/ ComputeDistances \/ Extract \/ CallAgain

Spec == Init /\ [][Next]_vars

-----------------------------------------------------------------------------
(* What the properties speak about: the trajectory's frame and water       *)
(* counts and its true distance tensor, read off the arguments alone.      *)

NF == Size(traj.xyz)

NW == Cardinality({a \in DOMAIN traj.top : IsWaterOxygen(traj.top[a])})

\* Water w is atom w+1 of Top: D[f][i][j] is the distance of waters i and j
D ==
    [f \in 0..(NF - 1) |->
        [i \in 0..(NW - 1) |->
            [j \in 0..(NW - 1) |->
                Abs(traj.xyz[f][i + 1] - traj.xyz[f][j + 1])]]]

Frames == 0..(NF - 1)

Waters == 0..(NW - 1)

Count(row, v) == Cardinality({k \in DOMAIN row : row[k] = v})

CountAtMost(row, v) == Cardinality({k \in DOMAIN row : row[k] <= v})

Ascending(row) ==
    \A k \in DOMAIN row : (k + 1) \in DOMAIN row => row[k] <= row[k + 1]

Range(row) == {row[k] : k \in DOMAIN row}

\* the mode the caller asked for, whatever the letter case
SameLetter(c, d) ==
    \/ c = d
    \/ \E i \in 1..Len(UpperChars) : {c, d} = {UpperChars[i], LowerChars[i]}

EqualIgnoringCase(s, m) ==
    Len(s) = Len(m) /\ \A i \in 1..Len(s) : SameLetter(s[i], m[i])

Asked(m) == EqualIgnoringCase(whichArg, m)

ValidMode == \E m \in possible_which : Asked(m)

ShellMode ==
    Asked(str_firstshell) \/ Asked(str_secondshell) \/ Asked(str_bothshells)

Positive(f, w) == \A j \in Waters \ {w} : D[f][w][j] > 0

-----------------------------------------------------------------------------
(* C1: in mode 'all' every returned row has W-1 entries, is in             *)
(* non-decreasing order and is, as a multiset, the distances of the row    *)
(* of D to the other waters: the entry dropped is the self-distance.       *)
C1_AllMode ==
    (pc = "done" /\ Asked(str_all)) =>
        /\ DOMAIN result = Frames
        /\ \A f \in Frames :
            /\ DOMAIN result[f] = Waters
            /\ \A w \in Waters :
                /\ Size(result[f][w]) = NW - 1
                /\ Ascending(result[f][w])
                /\ \A v \in Range(D[f][w]) \cup Range(result[f][w]) :
                      Count(result[f][w], v) =
                          Cardinality({j \in Waters \ {w} : D[f][w][j] = v})

\* mode 'all' has returned for six waters, one of which coincides with
\* another water and has two other waters at one distance
C1_Witness ==
    /\ pc = "done" /\ Asked(str_all) /\ NW = 6
    /\ \E f \in Frames, w \in Waters :
        /\ \E j \in Waters \ {w} : D[f][w][j] = 0 /\ result[f][w][0] = 0
        /\ \E i, j \in Waters \ {w} : i # j /\ D[f][w][i] = D[f][w][j]
                                            /\ D[f][w][i] > 0

(* C2: in mode 'firstshell' with W >= 5 the 4 returned values are the 4    *)
(* smallest entries of the row of D without its diagonal entry, nearest    *)
(* first.                                                                  *)
C2_FirstShell ==
    (pc = "done" /\ Asked(str_firstshell) /\ NW >= 5) =>
        \A f \in Frames, w \in Waters :
            /\ Size(result[f][w]) = 4
            /\ Ascending(result[f][w])
            /\ \A v \in Range(D[f][w]) \cup Range(result[f][w]) :
                  CountAtMost(result[f][w], v) =
                      Min2(4, Cardinality({j \in Waters \ {w} :
                                              D[f][w][j] <= v}))

\* 'firstshell' has returned for six waters; for one water the fourth and
\* fifth nearest are equally far, so one of them is left out
C2_Witness ==
    /\ pc = "done" /\ Asked(str_firstshell) /\ NW = 6
    /\ \E f \in Frames, w \in Waters :
        /\ Cardinality({j \in Waters \ {w} :
                           D[f][w][j] < result[f][w][3]}) = 3
        /\ Cardinality({j \in Waters \ {w} :
                           D[f][w][j] = result[f][w][3]}) = 2

(* C3: in mode 'secondshell' with W >= 5, output[f, w, 4k+m] is            *)
(* D[f, w, fs[f][fs[f][w][k]][m]] for k, m in 0..3: measured from w,       *)
(* neighbour-major, duplicates and w itself kept.                          *)
C3_SecondShell ==
    (pc = "done" /\ Asked(str_secondshell) /\ NW >= 5) =>
        \A f \in Frames, w \in Waters :
            /\ Size(result[f][w]) = 16
            /\ \A k, m \in 0..3 :
                  result[f][w][4 * k + m] =
                      D[f][w][first_shell_inds[f][
                                  first_shell_inds[f][w][k]][m]]

\* 'secondshell' has returned for two frames whose first shells differ;
\* some water's second shell holds the water itself and a duplicate, and is
\* not the same read neighbour-major and rank-major
C3_Witness ==
    /\ pc = "done" /\ Asked(str_secondshell) /\ NW >= 5 /\ NF = 2
    /\ first_shell_inds[0] # first_shell_inds[1]
    /\ \E f \in Frames, w \in Waters :
        /\ \E q \in 0..15 : inds[f][w][q] = w /\ result[f][w][q] = 0
        /\ \E q, r \in 0..15 : q # r /\ inds[f][w][q] = inds[f][w][r]
        /\ \E k, m \in 0..3 : result[f][w][4 * k + m] # result[f][w][4 * m + k]

\* what shell mode m returns for the dense tensor d on this build
ModeOutput(m, d) ==
    gather(d, Size(d), Size(d[0]),
           inds_of(m, first_shell_inds_of(d, tiebreak), Size(d), Size(d[0])))

(* C4: the output of 'bothshells' is, for every frame and water, the       *)
(* output of 'firstshell' followed by the output of 'secondshell' on the   *)
(* same tensor.                                                            *)
C4_BothShells ==
    (pc = "done" /\ Asked(str_bothshells)) =>
        \A first \in {ModeOutput(str_firstshell, D)},
           second \in {ModeOutput(str_secondshell, D)} :
            /\ DOMAIN result = Frames
            /\ \A f \in Frames :
                /\ DOMAIN result[f] = Waters
                /\ \A w \in Waters :
                      result[f][w] = Concatenate(first[f][w], second[f][w])

\* 'bothshells' has returned for six waters and two frames, and the two
\* parts of some row differ, so their order shows
C4_Witness ==
    /\ pc = "done" /\ Asked(str_bothshells) /\ NW = 6 /\ NF = 2
    /\ \E f \in Frames, w \in Waters :
          Slice(result[f][w], 0, 4) # Slice(result[f][w], 16, 20)

\* the last-axis size the shape law gives mode m for W waters
ShapeK(m, W) ==
    IF m = str_all THEN W - 1
    ELSE IF m = str_firstshell THEN 4
    ELSE IF m = str_secondshell THEN 16
    ELSE 20

(* C5: the output has shape (F, W, K), K = W-1 for 'all', and for W >= 5   *)
(* 4 for 'firstshell', 16 for 'secondshell', 20 for 'bothshells'.          *)
C5_Shape ==
    \A m \in possible_which :
        (pc = "done" /\ Asked(m) /\ (m = str_all \/ NW >= 5)) =>
            /\ DOMAIN result = Frames
            /\ \A f \in Frames :
                /\ DOMAIN result[f] = Waters
                /\ \A w \in Waters :
                      DOMAIN result[f][w] = 0..(ShapeK(m, NW) - 1)

\* 'bothshells' has returned 20 distances per water for six waters, twice
\* over (two frames)
C5_Witness ==
    /\ pc = "done" /\ Asked(str_bothshells) /\ NW = 6 /\ NF = 2
    /\ Size(result[1][5]) = 20

(* C6: a mode equal, ignoring case, to one of the four is accepted; any    *)
(* other fails with the invalid-mode error before the waters are selected, *)
(* the distances computed or the tensor read, and nothing is returned.     *)
C6_ModeValidation ==
    /\ pc # "start" =>
          ((pc = "failed" /\ error = "InvalidMode") <=> ~ValidMode)
    /\ pc \in {"validated", "computed", "done"} =>
          (which \in possible_which /\ Asked(which))
    /\ error = "InvalidMode" =>
          /\ pc = "failed"
          /\ oxygens = None /\ n_waters = 0 /\ distances = None
          /\ first_shell_inds = None /\ inds = None /\ result = None

\* the call has failed on 'shell', which names no mode
C6_Witness ==
    /\ pc = "failed" /\ error = "InvalidMode" /\ whichArg = str_shell
    /\ distances = None /\ result = None

SortedCopy(row, old) ==
    /\ DOMAIN row = DOMAIN old
    /\ Ascending(row)
    /\ \A v \in Range(row) \cup Range(old) : Count(row, v) = Count(old, v)

(* C8 as claimed: the dense distance tensor the extraction starts from is  *)
(* unchanged by the call, in every mode: nothing is mutated in place.      *)
C8_TensorUnchanged == [][pc = "computed" => distances' = distances]_vars

(* C8 as amended: the trajectory is never changed and, in the three shell  *)
(* modes, neither is the dense tensor; in mode 'all' the sort is in place  *)
(* and leaves every row of the (call-local) dense tensor in ascending      *)
(* order; a second call with the same arguments returns the same output.   *)
C8_PureButForSort ==
    [][ /\ traj' = traj
        /\ (pc = "computed" /\ shells) => distances' = distances
        /\ (pc = "computed" /\ ~shells) =>
              \A f \in Frames, w \in Waters :
                  SortedCopy(distances'[f][w], distances[f][w])
        /\ (pc' = "done" /\ again) => result' = prev ]_vars

\* the second call in mode 'all' has returned what the first did, and the
\* dense tensor it sorted is no longer the distance tensor
C8_Witness ==
    /\ pc = "done" /\ again /\ Asked(str_all) /\ NW = 6
    /\ result = prev
    /\ distances # D

\* ranks 1..4 of the water indices ordered by ascending row, ties by index
StableFirstShell(row) == Slice(argsort(row, "ascending"), 1, 5)

\* lst is ranks 1.. of SOME ascending order of the row's indices: its
\* entries are distinct, ascending in distance, no nearer than the one
\* index r0 ranked before them and no farther than the indices left out
RanksFromOne(lst, row) ==
    /\ \A k \in DOMAIN lst : lst[k] \in DOMAIN row
    /\ \A k, m \in DOMAIN lst : k # m => lst[k] # lst[m]
    /\ Ascending([k \in DOMAIN lst |-> row[lst[k]]])
    /\ \E r0 \in DOMAIN row \ Range(lst) :
        /\ \A j \in DOMAIN row : row[r0] <= row[j]
        /\ \A j \in DOMAIN row \ (Range(lst) \cup {r0}) :
              \A k \in DOMAIN lst : row[lst[k]] <= row[j]

NoTies(row) == \A i, j \in DOMAIN row : i # j => row[i] # row[j]

(* C9 as claimed: the first-shell index list is ranks 1..4 of the water    *)
(* indices in ascending distance with ties broken by the smaller index.    *)
C9_StableTies ==
    (pc = "done" /\ ShellMode) =>
        \A f \in Frames, w \in Waters :
            first_shell_inds[f][w] = StableFirstShell(D[f][w])

(* C9 as amended: the first-shell index list is ranks 1..4 of the water    *)
(* indices in an ascending order of the row, the order among equal         *)
(* distances being whatever the build's unstable sort gives; its indices   *)
(* are pairwise distinct and within 0..W-1, and it never holds w when the  *)
(* off-diagonal distances of the row are positive; the second-shell index  *)
(* list is fixed by the first-shell lists, and by D alone in a frame whose *)
(* rows have no ties.                                                      *)
C9_FirstShellRanks ==
    (pc = "done" /\ ShellMode) =>
        \A f \in Frames :
            /\ \A w \in Waters :
                /\ Size(first_shell_inds[f][w]) = Min2(4, NW - 1)
                /\ RanksFromOne(first_shell_inds[f][w], D[f][w])
                /\ Positive(f, w) => w \notin Range(first_shell_inds[f][w])
                /\ NoTies(D[f][w]) =>
                      first_shell_inds[f][w] = StableFirstShell(D[f][w])
            /\ Asked(str_secondshell) =>
                  \A w \in Waters :
                      \A k, m \in DOMAIN first_shell_inds[f][w] :
                          inds[f][w][Size(first_shell_inds[f][w]) * k + m] =
                              first_shell_inds[f][
                                  first_shell_inds[f][w][k]][m]

\* a shell mode has returned for six waters none of which coincide; one
\* water has two neighbours at the same distance and the build ranks the
\* one with the larger index first
C9_Witness ==
    /\ pc = "done" /\ ShellMode /\ NW = 6
    /\ \E f \in Frames :
        /\ \A w \in Waters : Positive(f, w)
        /\ \E w \in Waters, k \in 0..2 :
            /\ D[f][w][first_shell_inds[f][w][k]] =
                   D[f][w][first_shell_inds[f][w][k + 1]]
            /\ first_shell_inds[f][w][k] > first_shell_inds[f][w][k + 1]

(* C10 as claimed: for 2 <= W < 5 a shell mode does not fail; every        *)
(* first-shell list is cut to W-1 entries, all the other waters, and the   *)
(* last axis has W-1, (W-1)^2 and (W-1)+(W-1)^2 entries.                   *)
C10_TruncatedAllOthers ==
    (NW \in 2..4 /\ ShellMode) =>
        /\ pc # "failed"
        /\ pc = "done" =>
              \A f \in Frames, w \in Waters :
                  /\ Size(first_shell_inds[f][w]) = NW - 1
                  /\ Range(first_shell_inds[f][w]) = Waters \ {w}
                  /\ Asked(str_firstshell) => Size(result[f][w]) = NW - 1
                  /\ Asked(str_secondshell) =>
                        Size(result[f][w]) = (NW - 1) * (NW - 1)
                  /\ Asked(str_bothshells) =>
                        Size(result[f][w]) = (NW - 1) + (NW - 1) * (NW - 1)

(* C10 as amended: the same, but the W-1 entries are all the other waters  *)
(* only for a water that coincides with no other water; a list of a water  *)
(* that does may hold the water itself in place of one it coincides with.  *)
C10_Truncated ==
    (NW \in 2..4 /\ ShellMode) =>
        /\ pc # "failed"
        /\ pc = "done" =>
              \A f \in Frames, w \in Waters :
                  /\ Size(first_shell_inds[f][w]) = NW - 1
                  /\ Positive(f, w) =>
                        Range(first_shell_inds[f][w]) = Waters \ {w}
                  /\ Asked(str_firstshell) => Size(result[f][w]) = NW - 1
                  /\ Asked(str_secondshell) =>
                        Size(result[f][w]) = (NW - 1) * (NW - 1)
                  /\ Asked(str_bothshells) =>
                        Size(result[f][w]) = (NW - 1) + (NW - 1) * (NW - 1)

\* 'bothshells' has returned 3 + 9 distances per water for four waters,
\* none of which coincide
C10_Witness ==
    /\ pc = "done" /\ Asked(str_bothshells) /\ NW = 4
    /\ \A f \in Frames, w \in Waters :
          Positive(f, w) /\ Size(result[f][w]) = 12

====
